---------------------------- MODULE Spec2Model ----------------------------
(***************************************************************************)
(* Model of monthly_finance_app.py: the FinanceData record store, its two  *)
(* ingestion paths (CSV import, interactive prompts), the export and the   *)
(* tabular projection of MonthlyFinanceTracker, and the main pipeline.     *)
(*                                                                         *)
(* Text (CSV cells, column names, input lines) is a sequence of one-       *)
(* character strings, so that float(), repr() and the substring test are   *)
(* computed on characters.  A Python value that may be None is a record    *)
(* [none, s].  A float is a record [k, m, e]: k = "fin" stands for the     *)
(* decimal m / 10^e (m not divisible by 10 unless e = 0), k = "inf" for    *)
(* an infinity of the sign of m, k = "nan" for NaN.  A dict is the         *)
(* sequence of its [key, val] items in insertion order.  An operator that  *)
(* reads an intermediate result more than once takes it as a parameter.    *)
(***************************************************************************)
EXTENDS Integers, Sequences, FiniteSets, TLC

VARIABLES
    months,         \* self.months
    budgets_data,   \* self.budgets_data
    expenses_data,  \* self.expenses_data
    incomes_data,   \* self.incomes_data
    pc,             \* "idle", or "input" while collect_monthly_data waits in _get_input
    month,          \* loop variable of the interactive branch
    got,            \* values _get_input returned so far for the current month
    stdin,          \* the lines sys.stdin still holds: pre, then cyc again and again
    echo,           \* what the last input line made _get_input print
    accepted,       \* history: the values _get_input returned during the running call
    old,            \* history: the store when the last call started
    last,           \* history: the last call, [op, outcome, exc, rows]
    disk,           \* the file save_data wrote: [written, header, rows]
    fresh,          \* a second tracker that imported the written file: [done, self, outcome]
    stage,          \* position of main: "lib" when the tracker is driven as a library
    args,           \* the parsed command line of main: [manual, given, input]
    ran,            \* history: the stages of main that ran to completion
    work            \* ingestion units used so far (bounded exploration)

vars == <<months, budgets_data, expenses_data, incomes_data, pc, month, got, stdin,
          echo, accepted, old, last, disk, fresh, stage, args, ran, work>>

-----------------------------------------------------------------------------
(* Bounds of the exploration *)

\* ingestion units a behaviour may use: one per data row of an imported file,
\* one per interactive session
MaxWork == 2

-----------------------------------------------------------------------------
(* Text *)

DigitChars == <<"0", "1", "2", "3", "4", "5", "6", "7", "8", "9">>

IsDigit(c) == \E i \in 1..10 : DigitChars[i] = c

DigitVal(c) == (CHOOSE i \in 1..10 : DigitChars[i] = c) - 1

RECURSIVE IntToText(_)
\* str(n) for n >= 0
IntToText(n) ==
    IF n < 10 THEN <<DigitChars[n + 1]>>
    ELSE Append(IntToText(n \div 10), DigitChars[(n % 10) + 1])

RECURSIVE TextToNat(_)
TextToNat(s) ==
    IF Len(s) = 0 THEN 0
    ELSE 10 * TextToNat(SubSeq(s, 1, Len(s) - 1)) + DigitVal(s[Len(s)])

AllDigits(s) == \A i \in 1..Len(s) : IsDigit(s[i])

RECURSIVE Pow10(_)
Pow10(n) == IF n = 0 THEN 1 ELSE 10 * Pow10(n - 1)

\* Python's  sub in s  for strings
Contains(s, sub) ==
    \E i \in 0..(Len(s) - Len(sub)) : SubSeq(s, i + 1, i + Len(sub)) = sub

NoneVal == [none |-> TRUE, s |-> <<>>]

Str(s) == [none |-> FALSE, s |-> s]

Month == <<"M", "o", "n", "t", "h">>
Budget == <<"B", "u", "d", "g", "e", "t">>
Extras == <<"E", "x", "t", "r", "a", "s">>
Utilities == <<"U", "t", "i", "l", "i", "t", "i", "e", "s">>
Salary == <<"S", "a", "l", "a", "r", "y">>
Investments == <<"I", "n", "v", "e", "s", "t", "m", "e", "n", "t", "s">>
Income == <<"I", "n", "c", "o", "m", "e">>

-----------------------------------------------------------------------------
(* Floats *)

Fin(m, e) == [k |-> "fin", m |-> m, e |-> e]
NaN == [k |-> "nan", m |-> 0, e |-> 0]
Inf(sign) == [k |-> "inf", m |-> sign, e |-> 0]

RECURSIVE Normal(_, _)
\* the decimal m / 10^e without trailing zeros in its fraction
Normal(m, e) ==
    IF e > 0 /\ m % 10 = 0 THEN Normal(m \div 10, e - 1) ELSE Fin(m, e)

\* the value of the digits ip . fp
Decimal(ip, fp) ==
    IF AllDigits(ip) /\ AllDigits(fp) /\ Len(ip) + Len(fp) > 0
    THEN [ok |-> TRUE, val |-> Normal(TextToNat(ip \o fp), Len(fp))]
    ELSE [ok |-> FALSE, val |-> NaN]

\* where the decimal point is, or would follow
DotAt(s) == IF \E i \in 1..Len(s) : s[i] = "." THEN CHOOSE i \in 1..Len(s) : s[i] = "."
            ELSE Len(s) + 1

SplitAt(s, dot) == Decimal(SubSeq(s, 1, dot - 1), SubSeq(s, dot + 1, Len(s)))

\* float(s) for an unsigned literal: nan, inf, digits, digits.digits, digits.
\* or .digits
ParseUnsigned(s) ==
    IF s = <<"n", "a", "n">> THEN [ok |-> TRUE, val |-> NaN]
    ELSE IF s = <<"i", "n", "f">> THEN [ok |-> TRUE, val |-> Inf(1)]
    ELSE SplitAt(s, DotAt(s))

Negate(x) == [x EXCEPT !.m = 0 - x.m]

Signed(neg, r) == IF neg /\ r.ok THEN [ok |-> TRUE, val |-> Negate(r.val)] ELSE r

\* float(s): ok = FALSE stands for ValueError.  (-0.0 is modelled as 0.0,
\* which it equals.)
ParseFloat(s) ==
    IF Len(s) > 0 /\ s[1] \in {"-", "+"} THEN Signed(s[1] = "-", ParseUnsigned(Tail(s)))
    ELSE ParseUnsigned(s)

\* x >= 0 on floats: every comparison with NaN is false
GeZero(x) ==
    CASE x.k = "fin" -> x.m >= 0
      [] x.k = "inf" -> x.m > 0
      [] OTHER -> FALSE

RECURSIVE ZeroPad(_, _)
ZeroPad(s, n) == IF Len(s) >= n THEN s ELSE ZeroPad(<<"0">> \o s, n)

\* the digits of a / p . a % p for p = 10^e
ReprFin(neg, a, e, p) ==
    (IF neg THEN <<"-">> ELSE <<>>) \o IntToText(a \div p) \o <<".">>
    \o (IF e = 0 THEN <<"0">> ELSE ZeroPad(IntToText(a % p), e))

\* repr(x), which str() and csv.writer use for a float
Repr(x) ==
    CASE x.k = "nan" -> <<"n", "a", "n">>
      [] x.k = "inf" -> IF x.m > 0 THEN <<"i", "n", "f">> ELSE <<"-", "i", "n", "f">>
      [] OTHER -> ReprFin(x.m < 0, IF x.m < 0 THEN 0 - x.m ELSE x.m, x.e, Pow10(x.e))

-----------------------------------------------------------------------------
(* Dicts, in insertion order *)

Keys(d) == [i \in 1..Len(d) |-> d[i].key]

HasKey(d, k) == \E i \in 1..Len(d) : d[i].key = k

Get(d, k) == d[CHOOSE i \in 1..Len(d) : d[i].key = k].val

\* d[k] = v: a key already present keeps its position
DictSet(d, k, v) ==
    IF HasKey(d, k)
    THEN [i \in 1..Len(d) |-> IF d[i].key = k THEN [key |-> k, val |-> v] ELSE d[i]]
    ELSE Append(d, [key |-> k, val |-> v])

-----------------------------------------------------------------------------
(* The tracker *)

Self == [months |-> months, budgets_data |-> budgets_data,
         expenses_data |-> expenses_data, incomes_data |-> incomes_data]

\* FinanceData.__init__
NewTracker == [months |-> <<>>, budgets_data |-> <<>>,
               expenses_data |-> <<>>, incomes_data |-> <<>>]

-----------------------------------------------------------------------------
(* CSV import: collect_monthly_data(input_csv) *)

RECURSIVE ZipRow(_, _, _)
\* csv.DictReader's dict for one row, up to field i: dict(zip(fieldnames, row)),
\* then restval None for the fields the row is too short for
ZipRow(fieldnames, cells, i) ==
    IF i = 0 THEN <<>>
    ELSE DictSet(ZipRow(fieldnames, cells, i - 1), fieldnames[i],
                 IF i <= Len(cells) THEN Str(cells[i]) ELSE NoneVal)

\* the row as the loop sees it; rest stands for the restkey entry None -> [extra
\* cells] of a row longer than the header
DictReaderRow(fieldnames, cells) ==
    [d |-> ZipRow(fieldnames, cells, Len(fieldnames)),
     rest |-> Len(cells) > Len(fieldnames)]

FloatResult(r) == [exc |-> IF r.ok THEN "" ELSE "ValueError", val |-> r.val]

\* float(v) of a row value
FloatOf(v) ==
    IF v.none THEN [exc |-> "TypeError", val |-> NaN] ELSE FloatResult(ParseFloat(v.s))

\* the filter of the expenses comprehension
IsExpenseCategory(category) == category # Month /\ category # Budget

\* a filter that takes the sources by their usual names instead
IsIncomeNamed(source) == source \in {Salary, Investments}

\* the filter of the incomes comprehension
IsIncomeSource(source) == Contains(source, Income)

\* one more item of a comprehension: r the items before it, f its float
AddItem(r, key, f) ==
    IF r.exc # "" THEN r
    ELSE IF f.exc # "" THEN [exc |-> f.exc, d |-> <<>>]
    ELSE [exc |-> "", d |-> Append(r.d, [key |-> key, val |-> f.val])]

RECURSIVE FloatItems(_)
\* {key: float(val) for ...} over the selected items, left to right
FloatItems(items) ==
    IF items = <<>> THEN [exc |-> "", d |-> <<>>]
    ELSE AddItem(FloatItems(SubSeq(items, 1, Len(items) - 1)),
                 items[Len(items)].key, FloatOf(items[Len(items)].val))

ExpenseItem(item) == IsExpenseCategory(item.key)

IncomeItem(item) == IsIncomeSource(item.key)

\* a comprehension over a row with the restkey None: None passes the filter of
\* the expenses and float() of its list raises;  'Income' in None  raises
WithRest(row, r) ==
    IF r.exc = "" /\ row.rest THEN [exc |-> "TypeError", d |-> <<>>] ELSE r

\* the expenses comprehension
ExpensesOf(row) == WithRest(row, FloatItems(SelectSeq(row.d, ExpenseItem)))

\* the incomes comprehension
IncomesOf(row) == WithRest(row, FloatItems(SelectSeq(row.d, IncomeItem)))

\* the loop body after the month's label is appended: s1 is the store with the
\* label, b the budget, e the expenses, n the incomes
RowRest(s1, b, e, n) ==
    IF b.exc # "" THEN [self |-> s1, exc |-> b.exc]
    ELSE IF e.exc # ""
    THEN [self |-> [s1 EXCEPT !.budgets_data = Append(@, b.val)], exc |-> e.exc]
    ELSE IF n.exc # ""
    THEN [self |-> [s1 EXCEPT !.budgets_data = Append(@, b.val)], exc |-> n.exc]
    ELSE [self |-> [s1 EXCEPT !.budgets_data = Append(@, b.val),
                              !.expenses_data = Append(@, e.d),
                              !.incomes_data = Append(@, n.d)],
          exc |-> ""]

\* the body of  for row in reader  : exc = "" when the row ran to the end.
\* row['Month'] and row['Budget'] raise KeyError for a column the header lacks.
RowBody(self, row) ==
    IF ~HasKey(row.d, Month) THEN [self |-> self, exc |-> "KeyError"]
    ELSE IF ~HasKey(row.d, Budget)
    THEN [self |-> [self EXCEPT !.months = Append(@, Get(row.d, Month))],
          exc |-> "KeyError"]
    ELSE RowRest([self EXCEPT !.months = Append(@, Get(row.d, Month))],
                 FloatOf(Get(row.d, Budget)), ExpensesOf(row), IncomesOf(row))

\* the end of one turn of the loop, n rows done before it: an exception of the
\* body propagates
RowTurn(n, r) ==
    IF r.exc # "" THEN [self |-> r.self, outcome |-> "raised", exc |-> r.exc, rows |-> n]
    ELSE [self |-> r.self, outcome |-> "", exc |-> "", rows |-> n + 1]

\* one turn of the loop over the reader: a row the reader cannot parse raises
\* csv.Error, which is caught; a blank line is skipped by DictReader
ReadRow(self, header, line, n) ==
    IF line.bad THEN [self |-> self, outcome |-> "reported", exc |-> "csv.Error", rows |-> n]
    ELSE IF line.cells = <<>> THEN [self |-> self, outcome |-> "", exc |-> "", rows |-> n]
    ELSE RowTurn(n, RowBody(self, DictReaderRow(header, line.cells)))

RECURSIVE ReadRows(_, _, _)
\* the loop over the rows from row i on; t is the result so far
ReadRows(file, i, t) ==
    IF t.outcome # "" THEN t
    ELSE IF i > Len(file.rows) THEN [t EXCEPT !.outcome = "returned"]
    ELSE ReadRows(file, i + 1, ReadRow(t.self, file.header, file.rows[i], t.rows))

\* a read that would start from an emptied store
StartReadCleared(self) == [self |-> NewTracker, outcome |-> "", exc |-> "", rows |-> 0]

StartRead(self) == [self |-> self, outcome |-> "", exc |-> "", rows |-> 0]

\* the branch without its  except FileNotFoundError
CollectCsvUncaught(self, file) ==
    IF ~file.exists
    THEN [self |-> self, outcome |-> "raised", exc |-> "FileNotFoundError", rows |-> 0]
    ELSE ReadRows(file, 1, StartRead(self))

\* the branch  if input_csv:  of collect_monthly_data
CollectCsv(self, file) ==
    IF ~file.exists
    THEN [self |-> self, outcome |-> "reported", exc |-> "FileNotFoundError", rows |-> 0]
    ELSE ReadRows(file, 1, StartRead(self))

-----------------------------------------------------------------------------
(* Export and tabular projection: save_data, to_dataframe *)

\* str() as csv.writer applies it to a month label: None is written as ""
CsvText(label) == IF label.none THEN <<>> ELSE label.s

MonthColumn(self) == [i \in 1..Len(self.months) |-> CsvText(self.months[i])]

BudgetColumn(self) == [i \in 1..Len(self.budgets_data) |-> Repr(self.budgets_data[i])]

RECURSIVE AddColumns(_, _, _)
\* for key in dicts[0].keys(): data[key] = [d[key] for d in dicts]
\* over the keys still to do; a dict without the key raises KeyError
AddColumns(data, keys, dicts) ==
    IF keys = <<>> THEN [exc |-> "", data |-> data]
    ELSE IF \E i \in 1..Len(dicts) : ~HasKey(dicts[i], Head(keys))
    THEN [exc |-> "KeyError", data |-> data]
    ELSE AddColumns(
             DictSet(data, Head(keys),
                     [i \in 1..Len(dicts) |-> Repr(Get(dicts[i], Head(keys)))]),
             Tail(keys), dicts)

\* the keys the loops of save_data and to_dataframe run over
ColumnKeys(dicts) == Keys(dicts[1])

\* the second loop, over the income sources of record 0, after the first (e)
IncomeColumns(self, e) ==
    IF e.exc # "" THEN e
    ELSE IF self.incomes_data = <<>> THEN [exc |-> "IndexError", data |-> e.data]
    ELSE AddColumns(e.data, ColumnKeys(self.incomes_data), self.incomes_data)

\* the first loop, over the expense categories of record 0
ExpenseColumns(self, d0) ==
    IF self.expenses_data = <<>> THEN [exc |-> "IndexError", data |-> d0]
    ELSE AddColumns(d0, ColumnKeys(self.expenses_data), self.expenses_data)

\* the dict  data  that save_data and to_dataframe build (its values as text)
BuildData(self) ==
    IncomeColumns(self,
        ExpenseColumns(self, <<[key |-> Month, val |-> MonthColumn(self)],
                               [key |-> Budget, val |-> BudgetColumn(self)]>>))

\* the number of tuples zip(*data.values()) yields
MinLen(data) ==
    CHOOSE n \in {Len(data[j].val) : j \in 1..Len(data)} :
        \A j \in 1..Len(data) : n <= Len(data[j].val)

\* writer.writerow(data.keys()); writer.writerows(zip(*data.values()))
WriteCsv(data) ==
    [exists |-> TRUE,
     header |-> Keys(data),
     rows |-> [i \in 1..MinLen(data) |->
                 [bad |-> FALSE, cells |-> [j \in 1..Len(data) |-> data[j].val[i]]]]]

\* save_data after its loops: an exception of theirs leaves the file alone
Written(b) ==
    IF b.exc # ""
    THEN [exc |-> b.exc, written |-> FALSE,
          file |-> [exists |-> FALSE, header |-> <<>>, rows |-> <<>>]]
    ELSE [exc |-> "", written |-> TRUE, file |-> WriteCsv(b.data)]

\* save_data: the exception it raises ("" for none) and the file it writes
SaveData(self) == Written(BuildData(self))

\* pd.DataFrame(data) wants columns of one length
Framed(b) ==
    IF b.exc # "" THEN b.exc
    ELSE IF \E j \in 1..Len(b.data) : Len(b.data[j].val) # Len(b.data[1].val)
    THEN "ValueError"
    ELSE ""

\* to_dataframe: the exception it raises ("" for none)
ToDataframe(self) == Framed(BuildData(self))

\* an analysis that would pass an empty store over
AnalysisSkipsEmpty(self) == IF self.months = <<>> THEN "" ELSE ToDataframe(self)

\* analysis: df = self.to_dataframe(), then the statistics of each column
Analysis(self) == ToDataframe(self)

\* display_monthly_summaries: indexes the three other lists by range(len(months))
DisplayMonthlySummaries(self) ==
    IF Len(self.expenses_data) < Len(self.months)
       \/ Len(self.budgets_data) < Len(self.months)
    THEN "IndexError"
    ELSE ""

\* visualize_finances: plt.plot(x, y) wants x and y of one length
VisualizeFinances(self) ==
    IF Len(self.budgets_data) # Len(self.months)
       \/ Len(self.expenses_data) # Len(self.months)
       \/ (self.incomes_data # <<>> /\ Len(self.incomes_data) # Len(self.months))
    THEN "ValueError"
    ELSE ""

-----------------------------------------------------------------------------
(* Interactive entry: the else branch of collect_monthly_data, _get_input *)

\* range(1, 13) runs to 12
NumMonths == 12

\* f"{month}/2023"
MonthLabel(m) == Str(IntToText(m) \o <<"/", "2", "0", "2", "3">>)

\* a loop that would return every number
GetInputAcceptsAll(value) == TRUE

\* if value >= 0: return value
GetInputAccepts(value) == GeZero(value)

\* the two expenses taken in the other order
ExpensesSwapped(vals) ==
    <<[key |-> Extras, val |-> vals[3]], [key |-> Utilities, val |-> vals[2]]>>

\* expenses = {"Extras": ..., "Utilities": ...} from the month's values in prompt order
ExpensesEntered(vals) ==
    <<[key |-> Extras, val |-> vals[2]], [key |-> Utilities, val |-> vals[3]]>>

\* incomes = {"Salary": ..., "Investments": ...}
IncomesEntered(vals) ==
    <<[key |-> Salary, val |-> vals[4]], [key |-> Investments, val |-> vals[5]]>>

\* input(): a stream with no line left raises EOFError
AtEof(in) == in.pre = <<>> /\ in.cyc = <<>>

\* input(): the next line of the stream, and the stream after it
NextLine(in) == IF in.pre # <<>> THEN Head(in.pre) ELSE Head(in.cyc)

Consume(in) ==
    IF in.pre # <<>> THEN [in EXCEPT !.pre = Tail(@)]
    ELSE [in EXCEPT !.cyc = Append(Tail(@), Head(@))]

-----------------------------------------------------------------------------
(* Inputs *)

NoStream == [pre |-> <<>>, cyc |-> <<>>]

\* input lines: two accepted numbers, a negative one, NaN, and the "n" of test.py
Seven == <<"7">>
TwoAndHalf == <<"2", ".", "5">>
MinusThree == <<"-", "3">>
LetterN == <<"n">>
NanLine == <<"n", "a", "n">>

InputLines == {Seven, TwoAndHalf, MinusThree, LetterN, NanLine}

\* the stream test.py feeds: "n", then 1000, 200, 50, 5000, 100 twelve times
TestValues == << <<"1", "0", "0", "0">>, <<"2", "0", "0">>, <<"5", "0">>,
                 <<"5", "0", "0", "0">>, <<"1", "0", "0">> >>

RECURSIVE Repeat(_, _)
Repeat(s, n) == IF n = 0 THEN <<>> ELSE s \o Repeat(s, n - 1)

TestStream == [pre |-> <<LetterN>> \o Repeat(TestValues, NumMonths), cyc |-> <<>>]

\* streams that end too early: at once, after one value, in the second month
ShortStreams ==
    {[pre |-> p, cyc |-> <<>>] :
        p \in {<<>>, <<Seven>>, <<LetterN>> \o TestValues \o <<Seven, MinusThree>>}}

\* a stream is that of test.py, or ends early, or repeats one line without end,
\* or repeats a pair of lines of which the second is accepted
Streams ==
    {[pre |-> <<>>, cyc |-> <<l>>] : l \in InputLines}
    \cup {[pre |-> <<>>, cyc |-> <<a, b>>] : a \in InputLines, b \in {Seven, TwoAndHalf}}
    \cup ShortStreams
    \cup {TestStream}

\* column names beside those of the interactive variant
MyIncome == <<"M", "y">> \o Income
LowerIncome == <<"i", "n", "c", "o", "m", "e">>

TestHeader == <<Month, Budget, Extras, Utilities, Salary, Investments>>

Headers == {TestHeader,
            <<Month, Budget, MyIncome, Extras, LowerIncome>>,
            <<Budget, Month>>,
            <<Month, Extras>>,
            <<Budget, Extras>>}

LabelA == <<"1", "/", "2", "0", "2", "3">>
LabelB == <<"F", "e", "b">>

\* number cells by column position; under TestHeader row A is the row of test.py
NumsA == << <<"3", "0", "0">>, <<"1", "0", "0", "0">>, <<"2", "0", "0">>,
            <<"5", "0">>, <<"5", "0", "0", "0">>, <<"1", "0", "0">> >>

NumsB == << <<"7">>, <<"2", ".", "5">>, <<"-", "4">>, <<"1", "2", ".">>,
            <<"0", ".", "2", "5">>, <<"i", "n", "f">> >>

RowA(h) == [i \in 1..Len(h) |-> IF h[i] = Month THEN LabelA ELSE NumsA[i]]

RowB(h) == [i \in 1..Len(h) |-> IF h[i] = Month THEN LabelB ELSE NumsB[i]]

BadCell == <<"z", "z">>

Good(cells) == [bad |-> FALSE, cells |-> cells]

\* the rows a file with header h may hold
RowKinds(h) ==
    {Good(RowA(h)), Good(SubSeq(RowA(h), 1, Len(h) - 1))}
    \cup (IF h[1] = Month /\ Len(h) > 2 THEN {Good(RowB(h))} ELSE {})
    \cup (IF h = TestHeader
          THEN {Good([RowA(h) EXCEPT ![2] = BadCell]),
                Good([RowA(h) EXCEPT ![Len(h)] = BadCell]),
                Good(Append(RowA(h), NumsA[1])),
                Good(<<>>),
                [bad |-> TRUE, cells |-> <<>>]}
          ELSE {})

SeqsUpTo(S, n) == UNION {[1..k -> S] : k \in 0..n}

MissingFile == [exists |-> FALSE, header |-> <<>>, rows |-> <<>>]

\* the files with at most n rows, and the path that names no file
FilesUpTo(n) ==
    UNION {{[exists |-> TRUE, header |-> h, rows |-> r] : r \in SeqsUpTo(RowKinds(h), n)} :
           h \in Headers}
    \cup {MissingFile}

-----------------------------------------------------------------------------
(* Calls on the tracker *)

NoCall == [op |-> "none", outcome |-> "returned", exc |-> "", rows |-> 0]

Call(op, outcome, exc, rows) == [op |-> op, outcome |-> outcome, exc |-> exc, rows |-> rows]

NoDisk == [written |-> FALSE, file |-> MissingFile]

NoFresh == [done |-> FALSE, self |-> NewTracker, outcome |-> "returned"]

NoArgs == [manual |-> FALSE, given |-> FALSE, input |-> MissingFile]

SetSelf(self) ==
    /\ months' = self.months
    /\ budgets_data' = self.budgets_data
    /\ expenses_data' = self.expenses_data
    /\ incomes_data' = self.incomes_data

\* where main goes when a stage returns, and when it raises
AfterReturn(next) == IF stage = "lib" THEN "lib" ELSE next

AfterRaise == IF stage = "lib" THEN "lib" ELSE "failed"

Ran(name) == IF stage = "lib" THEN ran ELSE Append(ran, name)

InitCommon ==
    /\ months = <<>>
    /\ budgets_data = <<>>
    /\ expenses_data = <<>>
    /\ incomes_data = <<>>
    /\ pc = "idle"
    /\ month = 0
    /\ got = <<>>
    /\ echo = ""
    /\ accepted = <<>>
    /\ old = NewTracker
    /\ last = NoCall
    /\ disk = NoDisk
    /\ fresh = NoFresh
    /\ ran = <<>>
    /\ work = 0

\* a tracker driven through its methods, as test.py does
Init == InitCommon /\ stage = "lib" /\ args = NoArgs /\ stdin = NoStream

\* the effect of collect_monthly_data(input_csv) with result r
Imported(f, r) ==
    /\ SetSelf(r.self)
    /\ old' = Self
    /\ last' = Call("csv", r.outcome, r.exc, r.rows)
    /\ stage' = IF r.outcome = "raised" THEN AfterRaise ELSE AfterReturn("summarize")
    /\ ran' = IF r.outcome = "raised" THEN ran ELSE Ran("ingest")
    /\ work' = work + Len(f.rows)
    /\ UNCHANGED <<pc, month, got, stdin, echo, accepted, disk, fresh, args>>

\* collect_monthly_data(input_csv) with a path: the whole call
ImportFile(f) == Imported(f, CollectCsv(Self, f))

\* the calls that fill the store come before those that read it
Ingesting == last.op \in {"none", "csv", "manual"}

CollectCsvCall ==
    /\ stage = "lib"
    /\ pc = "idle"
    /\ Ingesting
    /\ \E f \in FilesUpTo(MaxWork - work) : ImportFile(f)

\* collect_monthly_data() without a path, up to the first prompt: the first
\* month's label is appended before its budget is asked for
EnterManual(in) ==
    /\ months' = Append(months, MonthLabel(1))
    /\ month' = 1
    /\ got' = <<>>
    /\ stdin' = in
    /\ echo' = ""
    /\ accepted' = <<>>
    /\ old' = Self
    /\ pc' = "input"
    /\ work' = work + 1
    /\ UNCHANGED <<budgets_data, expenses_data, incomes_data, last, disk, fresh, args, ran>>

\* an interactive session, when there is one, is the first call on the tracker
\* (the fixture of test.py)
CollectManualCall ==
    /\ stage = "lib"
    /\ pc = "idle"
    /\ last.op = "none"
    /\ work < MaxWork
    /\ \E in \in Streams : EnterManual(in)
    /\ UNCHANGED stage

\* _get_input returns value: collect_monthly_data stores it, and goes on to its
\* next prompt, or returns after the last month; vals are the month's values
Accepted(value, vals) ==
    /\ accepted' = Append(accepted, value)
    /\ echo' = ""
    /\ budgets_data' = IF Len(vals) = 1 THEN Append(budgets_data, value) ELSE budgets_data
    /\ IF Len(vals) < 5
       THEN /\ got' = vals
            /\ UNCHANGED <<months, expenses_data, incomes_data, month, pc, last, stage, ran>>
       ELSE /\ got' = <<>>
            /\ expenses_data' = Append(expenses_data, ExpensesEntered(vals))
            /\ incomes_data' = Append(incomes_data, IncomesEntered(vals))
            /\ IF month < NumMonths
               THEN /\ month' = month + 1
                    /\ months' = Append(months, MonthLabel(month + 1))
                    /\ UNCHANGED <<pc, last, stage, ran>>
               ELSE /\ pc' = "idle"
                    /\ last' = Call("manual", "returned", "", NumMonths)
                    /\ stage' = AfterReturn("summarize")
                    /\ ran' = Ran("ingest")
                    /\ UNCHANGED <<months, month>>

\* whether _get_input returns the parsed line r
Taken(r) == r.ok /\ GetInputAccepts(r.val)

AcceptLine(r) == Taken(r) /\ Accepted(r.val, Append(got, r.val))

RejectLine(r) ==
    /\ ~Taken(r)
    /\ echo' = IF r.ok THEN "Please enter a non-negative value."
               ELSE "Invalid input. Please enter a number."

\* _get_input reads a line that float() takes and that is >= 0, and returns
GetInputAccept ==
    /\ pc = "input"
    /\ ~AtEof(stdin)
    /\ AcceptLine(ParseFloat(NextLine(stdin)))
    /\ stdin' = Consume(stdin)
    /\ UNCHANGED <<old, disk, fresh, args, work>>

\* _get_input reads a line that float() refuses, or a number that is not >= 0:
\* it prints its message and prompts again
GetInputReject ==
    /\ pc = "input"
    /\ ~AtEof(stdin)
    /\ RejectLine(ParseFloat(NextLine(stdin)))
    /\ stdin' = Consume(stdin)
    /\ UNCHANGED <<months, budgets_data, expenses_data, incomes_data, pc, month, got,
                   accepted, old, last, disk, fresh, stage, args, ran, work>>

\* the stream has ended: input() raises EOFError, which nothing catches
GetInputEof ==
    /\ pc = "input"
    /\ AtEof(stdin)
    /\ pc' = "idle"
    /\ last' = Call("manual", "raised", "EOFError", month - 1)
    /\ stage' = AfterRaise
    /\ UNCHANGED <<months, budgets_data, expenses_data, incomes_data, month, got, stdin,
                   echo, accepted, old, disk, fresh, args, ran, work>>

Saved(r) ==
    /\ disk' = IF r.written THEN [written |-> TRUE, file |-> r.file] ELSE disk
    /\ last' = Call("save_data", IF r.exc = "" THEN "returned" ELSE "raised", r.exc, 0)

\* save_data(filename)
SaveDataCall ==
    /\ stage = "lib"
    /\ pc = "idle"
    /\ Saved(SaveData(Self))
    /\ fresh' = NoFresh
    /\ UNCHANGED <<months, budgets_data, expenses_data, incomes_data, pc, month, got,
                   stdin, echo, accepted, old, stage, args, ran, work>>

Projected(exc) ==
    last' = Call("to_dataframe", IF exc = "" THEN "returned" ELSE "raised", exc, 0)

\* to_dataframe()
ToDataframeCall ==
    /\ stage = "lib"
    /\ pc = "idle"
    /\ Projected(ToDataframe(Self))
    /\ UNCHANGED <<months, budgets_data, expenses_data, incomes_data, pc, month, got,
                   stdin, echo, accepted, old, disk, fresh, stage, args, ran, work>>

Reimported(r) == fresh' = [done |-> TRUE, self |-> r.self, outcome |-> r.outcome]

\* a new tracker imports the file save_data has just written
Reimport ==
    /\ stage = "lib"
    /\ pc = "idle"
    /\ last.op = "save_data"
    /\ disk.written
    /\ ~fresh.done
    /\ Reimported(CollectCsv(NewTracker, disk.file))
    /\ UNCHANGED <<months, budgets_data, expenses_data, incomes_data, pc, month, got,
                   stdin, echo, accepted, old, last, disk, stage, args, ran, work>>

Next ==
    \/ CollectCsvCall
    \/ CollectManualCall
    \/ GetInputAccept
    \/ GetInputReject
    \/ GetInputEof
    \/ SaveDataCall
    \/ ToDataframeCall
    \/ Reimport

Spec == Init /\ [][Next]_vars

-----------------------------------------------------------------------------
(* main: parse_args, then collect, summarize, analyze, visualize, export *)

\* the command lines: -m, or -i with a path, or neither
MainArgs ==
    {[manual |-> TRUE, given |-> FALSE, input |-> MissingFile],
     [manual |-> FALSE, given |-> FALSE, input |-> MissingFile]}
    \cup {[manual |-> FALSE, given |-> TRUE, input |-> f] : f \in FilesUpTo(MaxWork)}

\* whether collect_monthly_data takes its interactive branch: -m, or no path
\* (args.input is None, which  if input_csv:  takes for the else branch)
Interactive(a) == a.manual \/ ~a.given

InitMain ==
    /\ InitCommon
    /\ stage = "ingest"
    /\ args \in MainArgs
    /\ stdin \in (IF Interactive(args) THEN Streams ELSE {NoStream})

\* tracker.collect_monthly_data() or tracker.collect_monthly_data(args.input)
MainCollect ==
    /\ stage = "ingest"
    /\ pc = "idle"
    /\ last.op = "none"
    /\ IF Interactive(args)
       THEN EnterManual(stdin) /\ UNCHANGED stage
       ELSE ImportFile(args.input)

\* a stage of main after the collection: it ran with exception exc ("" for none)
Staged(name, op, exc, next) ==
    /\ last' = Call(op, IF exc = "" THEN "returned" ELSE "raised", exc, 0)
    /\ stage' = IF exc = "" THEN next ELSE "failed"
    /\ ran' = IF exc = "" THEN Append(ran, name) ELSE ran

\* tracker.display_monthly_summaries()
MainSummarize ==
    /\ stage = "summarize"
    /\ Staged("summarize", "display_monthly_summaries", DisplayMonthlySummaries(Self),
              "analyze")
    /\ UNCHANGED <<months, budgets_data, expenses_data, incomes_data, pc, month, got,
                   stdin, echo, accepted, old, disk, fresh, args, work>>

\* tracker.analysis()
MainAnalyze ==
    /\ stage = "analyze"
    /\ Staged("analyze", "analysis", Analysis(Self), "visualize")
    /\ UNCHANGED <<months, budgets_data, expenses_data, incomes_data, pc, month, got,
                   stdin, echo, accepted, old, disk, fresh, args, work>>

\* tracker.visualize_finances()
MainVisualize ==
    /\ stage = "visualize"
    /\ Staged("visualize", "visualize_finances", VisualizeFinances(Self), "export")
    /\ UNCHANGED <<months, budgets_data, expenses_data, incomes_data, pc, month, got,
                   stdin, echo, accepted, old, disk, fresh, args, work>>

Exported(r) ==
    /\ disk' = IF r.written THEN [written |-> TRUE, file |-> r.file] ELSE disk
    /\ Staged("export", "save_data", r.exc, "done")

\* tracker.save_data(args.output)
MainExport ==
    /\ stage = "export"
    /\ Exported(SaveData(Self))
    /\ UNCHANGED <<months, budgets_data, expenses_data, incomes_data, pc, month, got,
                   stdin, echo, accepted, old, fresh, args, work>>

NextMain ==
    \/ MainCollect
    \/ GetInputAccept
    \/ GetInputReject
    \/ GetInputEof
    \/ MainSummarize
    \/ MainAnalyze
    \/ MainVisualize
    \/ MainExport

SpecMain == InitMain /\ [][NextMain]_vars

-----------------------------------------------------------------------------
(* Properties *)

IsPrefix(a, b) == Len(a) <= Len(b) /\ SubSeq(b, 1, Len(a)) = a

SameLengths(self) ==
    /\ Len(self.months) = Len(self.budgets_data)
    /\ Len(self.budgets_data) = Len(self.expenses_data)
    /\ Len(self.expenses_data) = Len(self.incomes_data)

\* a call of collect_monthly_data with a path may start here
MayImport == stage = "lib" /\ pc = "idle" /\ Ingesting

\* C1: after every call of collect_monthly_data, however it ends, the four
\* collections have equal length.
C1_EqualLengths == (pc = "idle" /\ last.op \in {"csv", "manual"}) => SameLengths(Self)

AllNonNegative(dicts) ==
    \A i \in 1..Len(dicts) : \A j \in 1..Len(dicts[i]) : GeZero(dicts[i][j].val)

\* every value _get_input has returned, and every value an interactive session
\* has stored, is a number >= 0
C2_Stored ==
    /\ \A i \in 1..Len(accepted) : GeZero(accepted[i])
    /\ (pc = "input" \/ last.op = "manual") =>
          /\ \A i \in 1..Len(budgets_data) : GeZero(budgets_data[i])
          /\ AllNonNegative(expenses_data)
          /\ AllNonNegative(incomes_data)

\* what one input line r does: a number >= 0 is returned; any other line is
\* answered with a message and a prompt for the same field, and writes nothing
C2_Line(r) ==
    IF r.ok /\ GeZero(r.val)
    THEN accepted' = Append(accepted, r.val)
    ELSE /\ UNCHANGED <<months, budgets_data, expenses_data, incomes_data, got, month,
                        accepted, pc>>
         /\ echo' # ""

\* C2: _get_input never returns a negative or non-numeric value: a line that is
\* no number, or a negative number, is rejected with a message and followed by
\* another prompt for the same field, nothing is stored for it, and only a
\* value >= 0 ends the loop; so every value stored interactively is >= 0.
C2_NonNegativeInput ==
    /\ []C2_Stored
    /\ [][(pc = "input" /\ ~AtEof(stdin)) => C2_Line(ParseFloat(NextLine(stdin)))]_vars

\* a negative line has been rejected after a value had been accepted, and the
\* session waits for the same field again
C2_Witness ==
    /\ pc = "input"
    /\ echo = "Please enter a non-negative value."
    /\ Len(accepted) > 0

C3_Labels ==
    <<<<"1", "/", "2", "0", "2", "3">>,
      <<"2", "/", "2", "0", "2", "3">>,
      <<"3", "/", "2", "0", "2", "3">>,
      <<"4", "/", "2", "0", "2", "3">>,
      <<"5", "/", "2", "0", "2", "3">>,
      <<"6", "/", "2", "0", "2", "3">>,
      <<"7", "/", "2", "0", "2", "3">>,
      <<"8", "/", "2", "0", "2", "3">>,
      <<"9", "/", "2", "0", "2", "3">>,
      <<"1", "0", "/", "2", "0", "2", "3">>,
      <<"1", "1", "/", "2", "0", "2", "3">>,
      <<"1", "2", "/", "2", "0", "2", "3">>>>

C3_Number(n) == Fin(n, 0)

\* C3: an interactive session on an empty store that gets its 60 values ends
\* with exactly 12 records; record k (from 0) is labelled "(k+1)/2023" and holds
\* the accepted values 5k+1 .. 5k+5 as budget, Extras, Utilities, Salary and
\* Investments, with no other keys; the stream of test.py gives record 0 the
\* values 1000, 200, 50, 5000, 100.
C3_TwelveRecords ==
    (last.op = "manual" /\ last.outcome = "returned" /\ old = NewTracker) =>
        /\ Len(accepted) = 60
        /\ Len(months) = 12 /\ Len(budgets_data) = 12
        /\ Len(expenses_data) = 12 /\ Len(incomes_data) = 12
        /\ \A k \in 0..11 :
              /\ months[k + 1] = Str(C3_Labels[k + 1])
              /\ budgets_data[k + 1] = accepted[5 * k + 1]
              /\ expenses_data[k + 1] =
                    <<[key |-> Extras, val |-> accepted[5 * k + 2]],
                      [key |-> Utilities, val |-> accepted[5 * k + 3]]>>
              /\ incomes_data[k + 1] =
                    <<[key |-> Salary, val |-> accepted[5 * k + 4]],
                      [key |-> Investments, val |-> accepted[5 * k + 5]]>>
        /\ AtEof(stdin) =>
              /\ budgets_data[1] = C3_Number(1000)
              /\ expenses_data[1] = <<[key |-> Extras, val |-> C3_Number(200)],
                                      [key |-> Utilities, val |-> C3_Number(50)]>>
              /\ incomes_data[1] = <<[key |-> Salary, val |-> C3_Number(5000)],
                                     [key |-> Investments, val |-> C3_Number(100)]>>

\* the session of test.py, whose first line is rejected, has returned
C3_Witness ==
    /\ last.op = "manual" /\ last.outcome = "returned"
    /\ old = NewTracker
    /\ AtEof(stdin)
    /\ Len(months) = 12

\* the columns of a full row as items, in header order
C4_Items(h, cells) ==
    [i \in 1..Len(h) |-> [key |-> h[i], val |-> ParseFloat(cells[i]).val]]

C4_NotMonthBudget(item) == item.key \notin {Month, Budget}

C4_NamesIncome(item) ==
    \E i \in 1..Len(item.key) :
        i + 5 <= Len(item.key)
        /\ SubSeq(item.key, i, i + 5) = <<"I", "n", "c", "o", "m", "e">>

C4_CellOf(h, cells, name) == cells[CHOOSE i \in 1..Len(h) : h[i] = name]

\* the place among the records a call appends of the record of row j
C4_Place(f, j) == Cardinality({i \in 1..j : f.rows[i].cells # <<>>})

\* what the import of file f on store self, with result r, appended for row j
C4_Row(self, f, r, j, k) ==
    /\ r.self.months[Len(self.months) + k] = Str(C4_CellOf(f.header, f.rows[j].cells, Month))
    /\ r.self.budgets_data[Len(self.budgets_data) + k] =
          ParseFloat(C4_CellOf(f.header, f.rows[j].cells, Budget)).val
    /\ r.self.expenses_data[Len(self.expenses_data) + k] =
          SelectSeq(C4_Items(f.header, f.rows[j].cells), C4_NotMonthBudget)
    /\ r.self.incomes_data[Len(self.incomes_data) + k] =
          SelectSeq(C4_Items(f.header, f.rows[j].cells), C4_NamesIncome)

C4_File(self, f, r) ==
    r.outcome = "returned" =>
        \A j \in 1..Len(f.rows) :
            Len(f.rows[j].cells) = Len(f.header) => C4_Row(self, f, r, j, C4_Place(f, j))

C4_TestFile == [exists |-> TRUE, header |-> TestHeader, rows |-> <<Good(RowA(TestHeader))>>]

C4_TestRecord(r) ==
    /\ r.outcome = "returned"
    /\ r.self.budgets_data[Len(budgets_data) + 1] = C3_Number(1000)
    /\ Keys(r.self.expenses_data[Len(expenses_data) + 1]) =
          <<Extras, Utilities, Salary, Investments>>
    /\ Get(r.self.expenses_data[Len(expenses_data) + 1], Extras) = C3_Number(200)
    /\ r.self.incomes_data[Len(incomes_data) + 1] = <<>>

\* C4: the record an import appends for a data row has the Month cell as its
\* month, the Budget cell as a number as its budget, exactly the columns named
\* neither Month nor Budget as its expenses, and exactly the columns whose name
\* contains "Income" as its incomes; the row of test.py gets four expenses and
\* no income.
C4_ImportedRecord ==
    MayImport =>
        /\ \A f \in FilesUpTo(MaxWork - work) : C4_File(Self, f, CollectCsv(Self, f))
        /\ work < MaxWork => C4_TestRecord(CollectCsv(Self, C4_TestFile))

\* an import has appended a record that has an income
C4_Witness ==
    /\ last.op = "csv" /\ last.outcome = "returned" /\ last.rows > 0
    /\ incomes_data # <<>>
    /\ incomes_data[Len(incomes_data)] # <<>>
    /\ Len(expenses_data[Len(expenses_data)]) > Len(incomes_data[Len(incomes_data)])

\* C5: collect_monthly_data with a path to no file returns to its caller,
\* reports the error, and leaves the four collections as they were.
C5_MissingFileKeepsStore ==
    /\ MayImport =>
          CollectCsv(Self, MissingFile) =
              [self |-> Self, outcome |-> "reported", exc |-> "FileNotFoundError",
               rows |-> 0]
    /\ (last.op = "csv" /\ last.exc = "FileNotFoundError") =>
          last.outcome = "reported" /\ Self = old

\* the import of a missing file has left a store with records as it was
C5_Witness ==
    /\ last.op = "csv" /\ last.exc = "FileNotFoundError"
    /\ months # <<>>
    /\ Self = old

\* C6: when save_data completes on a store with at least one record, a new
\* tracker that imports the written file has the same months and the same
\* budgets.
C6_RoundTrip ==
    (fresh.done /\ months # <<>>) =>
        fresh.self.months = months /\ fresh.self.budgets_data = budgets_data

\* the values of one record under the keys given, as save_data writes them
C7_Values(d, keys) == [j \in 1..Len(keys) |-> Repr(Get(d, keys[j]))]

\* C7: the file save_data writes for a non-empty store has the header Month,
\* Budget, the expense categories of record 0, the income sources of record 0,
\* and then one row per stored month, in order, with that month's label,
\* budget and values.
C7_ExportLayout ==
    (last.op = "save_data" /\ last.outcome = "returned" /\ months # <<>>) =>
        /\ disk.file.header =
              <<Month, Budget>> \o Keys(expenses_data[1]) \o Keys(incomes_data[1])
        /\ Len(disk.file.rows) = Len(months)
        /\ SameLengths(Self)
        /\ \A i \in 1..Len(months) :
              disk.file.rows[i].cells =
                  <<CsvText(months[i]), Repr(budgets_data[i])>>
                  \o C7_Values(expenses_data[i], Keys(expenses_data[1]))
                  \o C7_Values(incomes_data[i], Keys(incomes_data[1]))

C8_KeySet(d) == {d[j].key : j \in 1..Len(d)}

\* a later month has other expense or income keys than record 0
C8_KeysDiffer ==
    \/ \E i \in 2..Len(expenses_data) : C8_KeySet(expenses_data[i]) # C8_KeySet(expenses_data[1])
    \/ \E i \in 2..Len(incomes_data) : C8_KeySet(incomes_data[i]) # C8_KeySet(incomes_data[1])

\* C8: when a later month's keys differ from those of record 0, save_data and
\* to_dataframe still complete (here on stores whose four collections have
\* equal length).
C8_DifferingKeysDropped ==
    (last.op \in {"save_data", "to_dataframe"} /\ SameLengths(Self) /\ C8_KeysDiffer) =>
        last.outcome = "returned"

\* main was given the path of a file that does not exist
C9_MissingInput == ~args.manual /\ args.given /\ ~args.input.exists

\* C9 as claimed: a run of main on a missing file goes through summarize,
\* analyze and visualize, and ends with a failure raised by save_data.
C9_FailsInExport ==
    (C9_MissingInput /\ stage = "failed") =>
        /\ last.op = "save_data"
        /\ ran = <<"ingest", "summarize", "analyze", "visualize">>

\* C9, amended: a run of main on a missing file is not aborted at ingestion;
\* summarize runs to completion on the empty store, then analysis raises
\* IndexError (in to_dataframe) and ends the run: visualize and export are
\* never reached, and no file is written.
C9_FailsInAnalysis ==
    C9_MissingInput =>
        /\ Self = NewTracker
        /\ stage \in {"ingest", "summarize", "analyze", "failed"}
        /\ stage = "ingest" => ran = <<>>
        /\ stage = "summarize" => ran = <<"ingest">> /\ last.outcome = "reported"
        /\ stage = "analyze" => ran = <<"ingest", "summarize">>
        /\ stage = "failed" =>
              /\ ran = <<"ingest", "summarize">>
              /\ last = Call("analysis", "raised", "IndexError", 0)
        /\ stage # "failed" => ENABLED NextMain
        /\ ~disk.written

\* the run on a missing file has ended in analysis
C9_Witness ==
    /\ C9_MissingInput
    /\ stage = "failed"
    /\ last.op = "analysis"

\* the number of data rows of a file: DictReader passes blank lines over
C10_DataRows(f) == Cardinality({i \in 1..Len(f.rows) : f.rows[i].cells # <<>>})

C10_Kept(before, after) ==
    /\ IsPrefix(before.months, after.months)
    /\ IsPrefix(before.budgets_data, after.budgets_data)
    /\ IsPrefix(before.expenses_data, after.expenses_data)
    /\ IsPrefix(before.incomes_data, after.incomes_data)

C10_Grown(before, after, n) ==
    /\ Len(after.months) = Len(before.months) + n
    /\ Len(after.budgets_data) = Len(before.budgets_data) + n
    /\ Len(after.expenses_data) = Len(before.expenses_data) + n
    /\ Len(after.incomes_data) = Len(before.incomes_data) + n

C10_File(self, f, r) ==
    /\ C10_Kept(self, r.self)
    /\ r.outcome = "returned" => C10_Grown(self, r.self, C10_DataRows(f))

\* C10: an import into a store that holds records appends one record per data
\* row after them and leaves every record it found unchanged; the store grows
\* by exactly the number of rows imported.
C10_AppendsOnly ==
    /\ MayImport => \A f \in FilesUpTo(MaxWork - work) : C10_File(Self, f, CollectCsv(Self, f))
    /\ last.op = "csv" =>
          /\ C10_Kept(old, Self)
          /\ last.outcome = "returned" => C10_Grown(old, Self, last.rows)

\* the import of test.py: one row after the twelve months entered by hand,
\* whose record 0 still holds what was entered
C10_Witness ==
    /\ last.op = "csv" /\ last.outcome = "returned"
    /\ Len(old.months) = 12
    /\ Len(months) = 13
    /\ budgets_data[1] = C3_Number(1000)
    /\ Get(expenses_data[1], Utilities) = C3_Number(50)
    /\ Get(incomes_data[1], Salary) = C3_Number(5000)

=============================================================================
